---------------------------- MODULE Spec2Model ----------------------------
(***************************************************************************)
(* School management application: subject enrollment, attendance marking  *)
(* and grade recording.  The database tables are bags (multisets) of rows, *)
(* so that a uniqueness constraint is a property of the handlers and of    *)
(* the declared unique_together checks, never of the representation.       *)
(* Timestamps, names, remarks, comments and dates of assignment are left   *)
(* out of the rows: no handler branches on them.                           *)
(***************************************************************************)
EXTENDS Integers, FiniteSets, Sequences, Bags, TLC

VARIABLES
    enrollments,    \* table StudentSubjectEnrollment: bag of [student, subject, is_active]
    attendance,     \* table Attendance: bag of [student, subject, date, status, marked_by]
    grades,         \* table Grade: bag of grade rows
    response,       \* what the last request answered
    percentage_in,  \* argument of the last calculate_letter_grade call
    letter_out,     \* its result
    in_flight       \* enroll requests being served: position and result of each

vars == <<enrollments, attendance, grades, response, percentage_in, letter_out, in_flight>>

tables == <<enrollments, attendance, grades>>

-----------------------------------------------------------------------------
(* Bounds of the model *)

NumSubjects == 11          \* subjects 1..NumSubjects exist
NumSmallSubjects == 4      \* subject ids the smaller specifications draw from
NumDates == 1              \* class dates 1..NumDates
MaxGrades == 2             \* rows the grade table holds at most
MaxMarks == 3              \* marks are drawn from 0..MaxMarks
MaxPercentage == 10100     \* percentages in hundredths of a percent
NumRequests == 2           \* enroll requests served at the same time
BelowZero == 100           \* percentages start at -BelowZero hundredths

(* Program constants *)

MaxEnrollments == 8        \* can_enroll_in_subject: get_enrollment_count() >= 8

-----------------------------------------------------------------------------
(* Accounts and fixtures.  Rows of User, StudentProfile, TeacherProfile,   *)
(* Class and Subject are fixed: no modelled handler writes them.           *)

None == "None"

Users == {"anon", "admin", "teacher0", "teacher1", "teacher2",
          "student0", "student1", "student2", "student3"}

is_authenticated(u) == u # "anon"

role(u) ==
    CASE u = "admin" -> "admin"
      [] u \in {"teacher0", "teacher1", "teacher2"} -> "teacher"
      [] OTHER -> "student"

User_is_student(u) == role(u) = "student"

User_is_teacher(u) == role(u) = "teacher"

\* the test without the role
is_student_any_role(u) == is_authenticated(u)

is_student(u) == is_authenticated(u) /\ User_is_student(u)

is_teacher(u) == is_authenticated(u) /\ User_is_teacher(u)

Students == {"S1", "S2", "S3", "S4"}

Teachers == {"T0", "T1", "T2"}

\* request.user.student_profile.  Role and profiles are separate rows: student0
\* has the student role and no student profile (and the teacher profile T0),
\* teacher0 has the teacher role and no teacher profile (and the student
\* profile S4), as after a change of a user's role.
student_profile(u) ==
    CASE u = "student1" -> "S1"
      [] u = "student2" -> "S2"
      [] u = "student3" -> "S3"
      [] u = "teacher0" -> "S4"
      [] OTHER -> None

\* request.user.teacher_profile
teacher_profile(u) ==
    CASE u = "student0" -> "T0"
      [] u = "teacher1" -> "T1"
      [] u = "teacher2" -> "T2"
      [] OTHER -> None

\* StudentProfile.class_assigned: S0 is a profile whose class was set to NULL
student_class(s) ==
    CASE s = "S2" -> "B"
      [] s = "S0" -> None
      [] OTHER -> "A"

Subjects == 1..NumSubjects

SubjectIds == 0..NumSubjects       \* 0 names no subject: get_object_or_404 fails

SmallSubjectIds == 0..NumSmallSubjects

subject_class(subj) == IF subj = 1 THEN "B" ELSE "A"

subject_is_active(subj) == subj # 2

subject_is_mandatory(subj) == subj = 3

subject_teacher(subj) ==
    CASE subj = 1 -> "T2"
      [] subj = 3 -> "T0"
      [] subj = 4 -> "T1"
      [] OTHER -> None

Methods == {"GET", "POST"}

-----------------------------------------------------------------------------
(* Object-relational helpers *)

\* QuerySet.filter: the rows of a table that lie in a set, as a bag
Filter(table, rows) == [r \in rows \cap DOMAIN table |-> table[r]]

\* QuerySet.count
Count(table) == BagCardinality(table)

Insert(table, row) == table (+) SetToBag({row})

Delete(table, row) == table (-) SetToBag({row})

\* the student's enrollments related manager
student_enrollments(table, student) ==
    Filter(table, {r \in DOMAIN table : r.student = student})

get_enrollment_count(student) == Count(student_enrollments(enrollments, student))

\* a table that declares no unique constraint
Enrollment_not_unique(table, student, subject) == TRUE

\* unique_together = ['student', 'subject']
Enrollment_unique_together(table, student, subject) ==
    \A r \in DOMAIN table : ~(r.student = student /\ r.subject = subject)

-----------------------------------------------------------------------------
(* StudentProfile.can_enroll_in_subject *)

\* the same checks with the subject limit left out
can_enroll_no_limit(student, subject) ==
    IF student_class(student) = None \/ subject_class(subject) # student_class(student)
    THEN [ok |-> FALSE, message |-> "Subject is not available for your class"]
    ELSE IF \E r \in DOMAIN enrollments :
                r.student = student /\ r.subject = subject /\ r.is_active
    THEN [ok |-> FALSE, message |-> "Already enrolled in this subject"]
    ELSE IF ~subject_is_active(subject)
    THEN [ok |-> FALSE, message |-> "Subject is not currently active"]
    ELSE [ok |-> TRUE, message |-> "Can enroll"]

\* the same checks with the class check left out
can_enroll_any_class(student, subject) ==
    IF \E r \in DOMAIN enrollments :
                r.student = student /\ r.subject = subject /\ r.is_active
    THEN [ok |-> FALSE, message |-> "Already enrolled in this subject"]
    ELSE IF get_enrollment_count(student) >= MaxEnrollments
    THEN [ok |-> FALSE, message |-> "Maximum subject limit reached (8 subjects)"]
    ELSE IF ~subject_is_active(subject)
    THEN [ok |-> FALSE, message |-> "Subject is not currently active"]
    ELSE [ok |-> TRUE, message |-> "Can enroll"]

\* the same checks with the limit compared by > instead of >=
can_enroll_limit_off_by_one(student, subject) ==
    IF student_class(student) = None \/ subject_class(subject) # student_class(student)
    THEN [ok |-> FALSE, message |-> "Subject is not available for your class"]
    ELSE IF \E r \in DOMAIN enrollments :
                r.student = student /\ r.subject = subject /\ r.is_active
    THEN [ok |-> FALSE, message |-> "Already enrolled in this subject"]
    ELSE IF get_enrollment_count(student) > MaxEnrollments
    THEN [ok |-> FALSE, message |-> "Maximum subject limit reached (8 subjects)"]
    ELSE IF ~subject_is_active(subject)
    THEN [ok |-> FALSE, message |-> "Subject is not currently active"]
    ELSE [ok |-> TRUE, message |-> "Can enroll"]

can_enroll_in_subject(student, subject) ==
    IF student_class(student) = None \/ subject_class(subject) # student_class(student)
    THEN [ok |-> FALSE, message |-> "Subject is not available for your class"]
    ELSE IF \E r \in DOMAIN enrollments :
                r.student = student /\ r.subject = subject /\ r.is_active
    THEN [ok |-> FALSE, message |-> "Already enrolled in this subject"]
    ELSE IF get_enrollment_count(student) >= MaxEnrollments
    THEN [ok |-> FALSE, message |-> "Maximum subject limit reached (8 subjects)"]
    ELSE IF ~subject_is_active(subject)
    THEN [ok |-> FALSE, message |-> "Subject is not currently active"]
    ELSE [ok |-> TRUE, message |-> "Can enroll"]

\* objects.create in place of get_or_create: always a new row
get_or_create_creates(student, subject) ==
    LET new == [student |-> student, subject |-> subject, is_active |-> TRUE]
    IN  [obj |-> new, created |-> TRUE, table |-> Insert(enrollments, new)]

\* StudentSubjectEnrollment.objects.get_or_create(student, subject,
\* defaults={'is_active': True}): the row found, or the row inserted under the
\* unique constraint (on a violation Django fetches the row again)
get_or_create(student, subject) ==
    LET found == {r \in DOMAIN enrollments : r.student = student /\ r.subject = subject}
        new == [student |-> student, subject |-> subject, is_active |-> TRUE]
    IN  IF found # {}
        THEN [obj |-> CHOOSE r \in found : TRUE, created |-> FALSE, table |-> enrollments]
        ELSE IF Enrollment_unique_together(enrollments, student, subject)
        THEN [obj |-> new, created |-> TRUE, table |-> Insert(enrollments, new)]
        ELSE [obj |-> new, created |-> FALSE, table |-> enrollments]

\* StudentProfile.enroll_in_subject: (success, message) and the table afterwards
enroll_in_subject(student, subject) ==
    LET chk == can_enroll_in_subject(student, subject) IN
    IF ~chk.ok
    THEN [success |-> FALSE, message |-> chk.message, table |-> enrollments]
    ELSE LET goc == get_or_create(student, subject) IN
         IF ~goc.created /\ ~goc.obj.is_active
         THEN [success |-> TRUE, message |-> "Successfully re-enrolled in subject",
               table |-> Insert(Delete(goc.table, goc.obj),
                                [goc.obj EXCEPT !.is_active = TRUE])]
         ELSE IF goc.created
         THEN [success |-> TRUE, message |-> "Successfully enrolled in subject",
               table |-> goc.table]
         ELSE [success |-> FALSE, message |-> "Already enrolled in this subject",
               table |-> goc.table]

\* unenroll_from_subject with the mandatory check left out
unenroll_no_mandatory_check(student, subject) ==
    LET found == {r \in DOMAIN enrollments :
                     r.student = student /\ r.subject = subject /\ r.is_active}
    IN  IF found = {}
        THEN [success |-> FALSE, message |-> "You are not enrolled in this subject",
              table |-> enrollments]
        ELSE [success |-> TRUE, message |-> "Successfully unenrolled from <subject>",
              table |-> Delete(enrollments, CHOOSE r \in found : TRUE)]

\* unenroll_from_subject with the mandatory flag read as its negation
unenroll_optional_refused(student, subject) ==
    LET found == {r \in DOMAIN enrollments :
                     r.student = student /\ r.subject = subject /\ r.is_active}
    IN  IF found = {}
        THEN [success |-> FALSE, message |-> "You are not enrolled in this subject",
              table |-> enrollments]
        ELSE IF ~subject_is_mandatory(subject)
        THEN [success |-> FALSE, message |-> "Cannot unenroll from mandatory subjects",
              table |-> enrollments]
        ELSE [success |-> TRUE, message |-> "Successfully unenrolled from <subject>",
              table |-> Delete(enrollments, CHOOSE r \in found : TRUE)]

\* unenroll_from_subject keeping the row as history: is_active = False, save
unenroll_deactivates(student, subject) ==
    LET found == {r \in DOMAIN enrollments :
                     r.student = student /\ r.subject = subject /\ r.is_active}
    IN  IF found = {}
        THEN [success |-> FALSE, message |-> "You are not enrolled in this subject",
              table |-> enrollments]
        ELSE IF subject_is_mandatory(subject)
        THEN [success |-> FALSE, message |-> "Cannot unenroll from mandatory subjects",
              table |-> enrollments]
        ELSE [success |-> TRUE, message |-> "Successfully unenrolled from <subject>",
              table |-> Insert(Delete(enrollments, CHOOSE r \in found : TRUE),
                               [student |-> student, subject |-> subject,
                                is_active |-> FALSE])]

\* unenroll_from_subject with the mandatory check made before the lookup
unenroll_mandatory_first(student, subject) ==
    LET found == {r \in DOMAIN enrollments :
                     r.student = student /\ r.subject = subject /\ r.is_active}
    IN  IF subject_is_mandatory(subject)
        THEN [success |-> FALSE, message |-> "Cannot unenroll from mandatory subjects",
              table |-> enrollments]
        ELSE IF found = {}
        THEN [success |-> FALSE, message |-> "You are not enrolled in this subject",
              table |-> enrollments]
        ELSE [success |-> TRUE, message |-> "Successfully unenrolled from <subject>",
              table |-> Delete(enrollments, CHOOSE r \in found : TRUE)]

\* StudentProfile.unenroll_from_subject
unenroll_from_subject(student, subject) ==
    LET found == {r \in DOMAIN enrollments :
                     r.student = student /\ r.subject = subject /\ r.is_active}
    IN  IF found = {}
        THEN [success |-> FALSE, message |-> "You are not enrolled in this subject",
              table |-> enrollments]
        ELSE IF subject_is_mandatory(subject)
        THEN [success |-> FALSE, message |-> "Cannot unenroll from mandatory subjects",
              table |-> enrollments]
        ELSE [success |-> TRUE, message |-> "Successfully unenrolled from <subject>",
              table |-> Delete(enrollments, CHOOSE r \in found : TRUE)]

-----------------------------------------------------------------------------
(* Responses *)

\* login_required / user_passes_test: redirect to the login page
LoginRedirect == [kind |-> "login", success |-> FALSE, message |-> "", enrolled_count |-> -1]

\* messages.success / messages.error followed by a redirect
Flash(ok, msg) == [kind |-> "flash", success |-> ok, message |-> msg, enrolled_count |-> -1]

Json(ok, msg, n) == [kind |-> "json", success |-> ok, message |-> msg, enrolled_count |-> n]

NoProfileError == "User has no student_profile."

NoSubjectError == "No Subject matches the given query."

-----------------------------------------------------------------------------
(* students/views.py *)

\* enroll_subject without the test of request.method
enroll_subject_any_method(u, method, subject_id) ==
    /\ UNCHANGED <<attendance, grades, percentage_in, letter_out, in_flight>>
    /\ IF ~is_student(u)
       THEN response' = LoginRedirect /\ UNCHANGED enrollments
       ELSE IF student_profile(u) = None
       THEN /\ response' = Flash(FALSE, "An error occurred: " \o NoProfileError)
            /\ UNCHANGED enrollments
       ELSE IF subject_id \notin Subjects
       THEN /\ response' = Flash(FALSE, "An error occurred: " \o NoSubjectError)
            /\ UNCHANGED enrollments
       ELSE LET res == enroll_in_subject(student_profile(u), subject_id) IN
            /\ enrollments' = res.table
            /\ response' = IF res.success
                           THEN Flash(TRUE, "Successfully enrolled in <subject>")
                           ELSE Flash(FALSE, "Failed to enroll: " \o res.message)

enroll_subject(u, method, subject_id) ==
    /\ UNCHANGED <<attendance, grades, percentage_in, letter_out, in_flight>>
    /\ IF ~is_student(u)
       THEN response' = LoginRedirect /\ UNCHANGED enrollments
       ELSE IF method # "POST"
       THEN response' = Flash(FALSE, "Invalid request method") /\ UNCHANGED enrollments
       ELSE IF student_profile(u) = None
       THEN /\ response' = Flash(FALSE, "An error occurred: " \o NoProfileError)
            /\ UNCHANGED enrollments
       ELSE IF subject_id \notin Subjects
       THEN /\ response' = Flash(FALSE, "An error occurred: " \o NoSubjectError)
            /\ UNCHANGED enrollments
       ELSE LET res == enroll_in_subject(student_profile(u), subject_id) IN
            /\ enrollments' = res.table
            /\ response' = IF res.success
                           THEN Flash(TRUE, "Successfully enrolled in <subject>")
                           ELSE Flash(FALSE, "Failed to enroll: " \o res.message)

unenroll_subject(u, method, subject_id) ==
    /\ UNCHANGED <<attendance, grades, percentage_in, letter_out, in_flight>>
    /\ IF ~is_student(u)
       THEN response' = LoginRedirect /\ UNCHANGED enrollments
       ELSE IF method # "POST"
       THEN response' = Flash(FALSE, "Invalid request method") /\ UNCHANGED enrollments
       ELSE IF student_profile(u) = None
       THEN /\ response' = Flash(FALSE, "An error occurred: " \o NoProfileError)
            /\ UNCHANGED enrollments
       ELSE IF subject_id \notin Subjects
       THEN /\ response' = Flash(FALSE, "An error occurred: " \o NoSubjectError)
            /\ UNCHANGED enrollments
       ELSE LET res == unenroll_from_subject(student_profile(u), subject_id) IN
            /\ enrollments' = res.table
            /\ response' = IF res.success
                           THEN Flash(TRUE, "Successfully unenrolled from <subject>")
                           ELSE Flash(FALSE, "Failed to unenroll: " \o res.message)

ajax_enroll_subject(u, method, subject_id) ==
    /\ UNCHANGED <<attendance, grades, percentage_in, letter_out, in_flight>>
    /\ IF ~is_student(u)
       THEN response' = LoginRedirect /\ UNCHANGED enrollments
       ELSE IF method # "POST"
       THEN response' = Json(FALSE, "Invalid request method", -1) /\ UNCHANGED enrollments
       ELSE IF student_profile(u) = None
       THEN response' = Json(FALSE, NoProfileError, -1) /\ UNCHANGED enrollments
       ELSE IF subject_id \notin Subjects
       THEN response' = Json(FALSE, NoSubjectError, -1) /\ UNCHANGED enrollments
       ELSE LET res == enroll_in_subject(student_profile(u), subject_id) IN
            /\ enrollments' = res.table
            /\ response' = Json(res.success, res.message,
                                Count(student_enrollments(res.table, student_profile(u))))

-----------------------------------------------------------------------------
(* The student-facing handlers over an empty database *)

NoResponse == [kind |-> "none", success |-> FALSE, message |-> "", enrolled_count |-> -1]

\* the requests a server with NumRequests workers serves at the same time
Requests == 1..NumRequests

\* a worker that serves no request
Idle == [pc |-> "idle", student |-> None, subject |-> 0, success |-> FALSE, message |-> ""]

Init ==
    /\ enrollments = EmptyBag
    /\ attendance = EmptyBag
    /\ grades = EmptyBag
    /\ response = NoResponse
    /\ percentage_in = 0
    /\ letter_out = None
    /\ in_flight = [req \in Requests |-> Idle]

\* every POST of the student of class A, for every subject id
StudentPosts ==
    \E subject_id \in SubjectIds :
        \/ enroll_subject("student1", "POST", subject_id)
        \/ ajax_enroll_subject("student1", "POST", subject_id)
        \/ unenroll_subject("student1", "POST", subject_id)

\* every user's POST for the subject of class B
AnyPosts ==
    \E u \in Users :
        \/ enroll_subject(u, "POST", 1)
        \/ ajax_enroll_subject(u, "POST", 1)
        \/ unenroll_subject(u, "POST", 1)

\* requests that are not POSTs
GetRequests ==
    \E u \in {"anon", "student1"} :
        \/ enroll_subject(u, "GET", 1)
        \/ ajax_enroll_subject(u, "GET", 1)
        \/ unenroll_subject(u, "GET", 1)

Next == StudentPosts \/ AnyPosts \/ GetRequests

Spec == Init /\ [][Next]_vars

-----------------------------------------------------------------------------
(* Enrollment claims *)

Active(student, subject) ==
    \E r \in DOMAIN enrollments :
        r.student = student /\ r.subject = subject /\ r.is_active

ActiveCount(student) ==
    Count(Filter(enrollments,
                 {r \in DOMAIN enrollments : r.student = student /\ r.is_active}))

MandatorySubjects == {subj \in Subjects : subject_is_mandatory(subj)}

ProfiledStudentUsers == {u \in Users : is_student(u) /\ student_profile(u) # None}

\* C1: with every enroll and unenroll call atomic, starting from no
\* enrollments, every student has at most 8 active enrollments.
C1_AtMostEightActive ==
    \A student \in Students : ActiveCount(student) <= MaxEnrollments

\* a student holds 8 active enrollments and a ninth was just refused
C1_Witness ==
    /\ ActiveCount("S1") = MaxEnrollments
    /\ response.message = "Maximum subject limit reached (8 subjects)"

\* C2: unenrolling from a mandatory subject the student is actively enrolled
\* in reports failure and changes no record.
C2_MandatoryUnenrollRefused ==
    [][\A u \in ProfiledStudentUsers, subject_id \in MandatorySubjects :
          ( /\ Active(student_profile(u), subject_id)
            /\ unenroll_subject(u, "POST", subject_id) )
          => /\ ~response'.success
             /\ response'.message = "Failed to unenroll: Cannot unenroll from mandatory subjects"
             /\ UNCHANGED tables]_vars

\* the refusal was given while the mandatory enrollment is in place
C2_Witness ==
    /\ response.message = "Failed to unenroll: Cannot unenroll from mandatory subjects"
    /\ Active("S1", 3)

\* C3: an active enrollment in a mandatory subject survives every
\* student-facing operation of every student.
C3_MandatoryEnrollmentStays ==
    [][\A student \in Students, subject_id \in MandatorySubjects :
          Active(student, subject_id) => Active(student, subject_id)']_vars

\* the student holds the mandatory enrollment right after unenrolling from
\* another subject
C3_Witness ==
    /\ Active("S1", 3)
    /\ response = Flash(TRUE, "Successfully unenrolled from <subject>")


-----------------------------------------------------------------------------
(* core/admin.py: the administrator's add, change and delete pages of the  *)
(* enrollment table.  The add and change forms validate unique_together.   *)

AdminDone(ok, msg) == [kind |-> "admin", success |-> ok, message |-> msg, enrolled_count |-> -1]

AdminAddEnrollment(student, subject, is_active) ==
    /\ UNCHANGED <<attendance, grades, percentage_in, letter_out, in_flight>>
    /\ IF Enrollment_unique_together(enrollments, student, subject)
       THEN /\ enrollments' = Insert(enrollments,
                [student |-> student, subject |-> subject, is_active |-> is_active])
            /\ response' = AdminDone(TRUE, "The enrollment was added successfully.")
       ELSE /\ UNCHANGED enrollments
            /\ response' = AdminDone(FALSE,
                   "Enrollment with this Student and Subject already exists.")

\* the change form with the is_active box toggled
AdminChangeEnrollment(row) ==
    /\ row \in DOMAIN enrollments
    /\ UNCHANGED <<attendance, grades, percentage_in, letter_out, in_flight>>
    /\ enrollments' = Insert(Delete(enrollments, row),
                             [row EXCEPT !.is_active = ~row.is_active])
    /\ response' = AdminDone(TRUE, "The enrollment was changed successfully.")

AdminDeleteEnrollment(row) ==
    /\ row \in DOMAIN enrollments
    /\ UNCHANGED <<attendance, grades, percentage_in, letter_out, in_flight>>
    /\ enrollments' = Delete(enrollments, row)
    /\ response' = AdminDone(TRUE, "The enrollment was deleted successfully.")

\* subjects the administrator's forms name in the smaller specifications
AdminSubjects == 3..NumSmallSubjects

SmallStudentPosts ==
    \E u \in {"student1", "student2"}, subject_id \in SmallSubjectIds :
        \/ enroll_subject(u, "POST", subject_id)
        \/ ajax_enroll_subject(u, "POST", subject_id)
        \/ unenroll_subject(u, "POST", subject_id)

AdminEnrollmentPages ==
    \/ \E student \in {"S1", "S2"}, subject \in AdminSubjects, is_active \in BOOLEAN :
           AdminAddEnrollment(student, subject, is_active)
    \/ \E row \in DOMAIN enrollments :
           \/ AdminChangeEnrollment(row)
           \/ AdminDeleteEnrollment(row)

NextAdmin == SmallStudentPosts \/ AdminEnrollmentPages

SpecAdmin == Init /\ [][NextAdmin]_vars

\* C4: whatever enroll, unenroll and re-enroll operations ran, the table
\* holds at most one enrollment row for each (student, subject).
C4_EnrollmentUnique ==
    \A r1, r2 \in DOMAIN enrollments :
        (r1.student = r2.student /\ r1.subject = r2.subject)
        => (r1 = r2 /\ enrollments[r1] = 1)

\* a deactivated row was just reactivated by a re-enrollment
C4_Witness ==
    /\ response.kind = "json"
    /\ response.message = "Successfully re-enrolled in subject"
    /\ Active("S1", 4)


-----------------------------------------------------------------------------
(* teacher/views.py: mark_attendance *)

ATTENDANCE_CHOICES == {"present", "absent", "late", "excused"}

Dates == 1..NumDates

BadDate == 0     \* a date field that strptime('%Y-%m-%d') rejects

\* unique_together = ['student', 'subject', 'date']
Attendance_unique_together(table, student, subject, date) ==
    \A r \in DOMAIN table :
        ~(r.student = student /\ r.subject = subject /\ r.date = date)

\* StudentProfile.objects.filter(enrollments__subject=subject,
\*                               enrollments__is_active=True)
enrolled_students(subject) ==
    {r.student : r \in {x \in DOMAIN enrollments : x.subject = subject /\ x.is_active}}

FieldMissing == "<missing>"

\* request.POST.get('attendance_<id>', 'absent')
PostGet(fields, key, default) ==
    IF fields[key] = FieldMissing THEN default ELSE fields[key]

\* a plain insert of the row, whatever the table holds
update_or_create_inserts(table, student, subject, date, status, teacher) ==
    [ok |-> TRUE,
     table |-> Insert(table, [student |-> student, subject |-> subject, date |-> date,
                              status |-> status, marked_by |-> teacher])]

\* Attendance.objects.update_or_create(student, subject, date, defaults=...)
update_or_create(table, student, subject, date, status, teacher) ==
    LET found == {r \in DOMAIN table :
                     r.student = student /\ r.subject = subject /\ r.date = date}
        new == [student |-> student, subject |-> subject, date |-> date,
                status |-> status, marked_by |-> teacher]
    IN  IF found = {}
        THEN IF Attendance_unique_together(table, student, subject, date)
             THEN [ok |-> TRUE, table |-> Insert(table, new)]
             ELSE [ok |-> FALSE, table |-> table]
        ELSE IF Count(Filter(table, found)) > 1
        THEN [ok |-> FALSE, table |-> table]       \* MultipleObjectsReturned
        ELSE [ok |-> TRUE,
              table |-> Insert(Delete(table, CHOOSE r \in found : TRUE), new)]

\* the loop over the enrolled students, inside transaction.atomic()
RECURSIVE MarkAll(_, _, _, _, _, _)
MarkAll(table, students, subject, date, fields, teacher) ==
    IF students = {}
    THEN [ok |-> TRUE, table |-> table]
    ELSE LET student == CHOOSE x \in students : TRUE
             step == update_or_create(table, student, subject, date,
                                      PostGet(fields, student, "absent"), teacher)
         IN  IF ~step.ok
             THEN step
             ELSE MarkAll(step.table, students \ {student}, subject, date, fields, teacher)

NoTeacherProfileError == "User has no teacher_profile."

\* mark_attendance looking the subject up by id only, without teacher=teacher_profile
mark_attendance_any_teacher(u, method, subject_id, date, fields) ==
    /\ UNCHANGED <<enrollments, grades, percentage_in, letter_out, in_flight>>
    /\ IF ~is_teacher(u)
       THEN response' = LoginRedirect /\ UNCHANGED attendance
       ELSE IF method # "POST"
       THEN response' = Flash(FALSE, "Invalid request method.") /\ UNCHANGED attendance
       ELSE IF teacher_profile(u) = None
       THEN /\ response' = Flash(FALSE, "Error marking attendance: " \o NoTeacherProfileError)
            /\ UNCHANGED attendance
       ELSE IF subject_id \notin Subjects
       THEN /\ response' = Flash(FALSE, "Error marking attendance: " \o NoSubjectError)
            /\ UNCHANGED attendance
       ELSE IF date \notin Dates
       THEN /\ response' = Flash(FALSE, "Error marking attendance: bad date")
            /\ UNCHANGED attendance
       ELSE LET res == MarkAll(attendance, enrolled_students(subject_id), subject_id,
                               date, fields, teacher_profile(u)) IN
            IF res.ok
            THEN /\ attendance' = res.table
                 /\ response' = Flash(TRUE, "Attendance marked successfully for <subject> on <date>")
            ELSE /\ UNCHANGED attendance
                 /\ response' = Flash(FALSE, "Error marking attendance: database error")

mark_attendance(u, method, subject_id, date, fields) ==
    /\ UNCHANGED <<enrollments, grades, percentage_in, letter_out, in_flight>>
    /\ IF ~is_teacher(u)
       THEN response' = LoginRedirect /\ UNCHANGED attendance
       ELSE IF method # "POST"
       THEN response' = Flash(FALSE, "Invalid request method.") /\ UNCHANGED attendance
       ELSE IF teacher_profile(u) = None
       THEN /\ response' = Flash(FALSE, "Error marking attendance: " \o NoTeacherProfileError)
            /\ UNCHANGED attendance
       ELSE IF subject_id \notin Subjects \/ subject_teacher(subject_id) # teacher_profile(u)
       THEN /\ response' = Flash(FALSE, "Error marking attendance: " \o NoSubjectError)
            /\ UNCHANGED attendance
       ELSE IF date \notin Dates
       THEN /\ response' = Flash(FALSE, "Error marking attendance: bad date")
            /\ UNCHANGED attendance
       ELSE LET res == MarkAll(attendance, enrolled_students(subject_id), subject_id,
                               date, fields, teacher_profile(u)) IN
            IF res.ok
            THEN /\ attendance' = res.table
                 /\ response' = Flash(TRUE, "Attendance marked successfully for <subject> on <date>")
            ELSE /\ UNCHANGED attendance
                 /\ response' = Flash(FALSE, "Error marking attendance: database error")

-----------------------------------------------------------------------------
(* Attendance marking interleaved with enrollment changes *)

\* values the form's attendance_<id> fields carry
FormStatuses == {"present", "sick", FieldMissing}

AttendanceForms == [Students -> FormStatuses]

\* the forms that differ only in the fields of the students of class A
ClassAForms == {f \in AttendanceForms : f["S2"] = FieldMissing}

EnrollmentChanges ==
    \E u \in {"student1", "student3"} :
        \/ enroll_subject(u, "POST", 4)
        \/ unenroll_subject(u, "POST", 4)

TeacherSubmissions ==
    \E date \in Dates \cup {BadDate}, fields \in ClassAForms :
        mark_attendance("teacher1", "POST", 4, date, fields)

OtherSubmissions ==
    \E u \in {"anon", "student1", "teacher0", "teacher1", "teacher2"},
       method \in Methods, subject_id \in {0, 1, 4} :
        mark_attendance(u, method, subject_id, 1, [s \in Students |-> "late"])

NextAttendance == EnrollmentChanges \/ TeacherSubmissions \/ OtherSubmissions

SpecAttendance == Init /\ [][NextAttendance]_vars

\* C5: whatever mark_attendance submissions ran, repeated or interleaved with
\* enrollment changes, the table holds at most one attendance row for each
\* (student, subject, date).
C5_AttendanceUnique ==
    \A r1, r2 \in DOMAIN attendance :
        (r1.student = r2.student /\ r1.subject = r2.subject /\ r1.date = r2.date)
        => (r1 = r2 /\ attendance[r1] = 1)

\* a student's row of a date was rewritten by a second submission after the
\* other student left the subject
C5_Witness ==
    /\ response.success /\ response.kind = "flash"
    /\ [student |-> "S1", subject |-> 4, date |-> 1, status |-> "sick",
        marked_by |-> "T1"] \in DOMAIN attendance
    /\ [student |-> "S3", subject |-> 4, date |-> 1, status |-> "present",
        marked_by |-> "T1"] \in DOMAIN attendance
    /\ ~Active("S3", 4)
    /\ Active("S1", 4)

\* C9: every stored attendance row has a status among the four choices.
C9_StatusAmongChoices ==
    \A r \in DOMAIN attendance : r.status \in ATTENDANCE_CHOICES


-----------------------------------------------------------------------------
(* core/models.py: Grade *)

\* round(x, 2) of a Decimal rounds half to even; num / den >= 0, den > 0
RoundHalfEven(num, den) ==
    LET q == num \div den
        r == num % den
    IN  IF 2 * r < den THEN q
        ELSE IF 2 * r > den THEN q + 1
        ELSE IF q % 2 = 0 THEN q ELSE q + 1

\* round((marks_obtained / total_marks) * 100, 2), in hundredths of a percent
Percentage(marks_obtained, total_marks) ==
    RoundHalfEven(marks_obtained * 10000, total_marks)

\* the cutoffs compared with > instead of >=
calculate_letter_grade_strict(percentage) ==
    IF percentage > 9700 THEN "A+"
    ELSE IF percentage > 9300 THEN "A"
    ELSE IF percentage > 9000 THEN "A-"
    ELSE IF percentage > 8700 THEN "B+"
    ELSE IF percentage > 8300 THEN "B"
    ELSE IF percentage > 8000 THEN "B-"
    ELSE IF percentage > 7700 THEN "C+"
    ELSE IF percentage > 7300 THEN "C"
    ELSE IF percentage > 7000 THEN "C-"
    ELSE IF percentage > 6700 THEN "D+"
    ELSE IF percentage > 6300 THEN "D"
    ELSE IF percentage > 6000 THEN "D-"
    ELSE "F"

\* Grade.calculate_letter_grade, the percentage in hundredths of a percent
calculate_letter_grade(percentage) ==
    IF percentage >= 9700 THEN "A+"
    ELSE IF percentage >= 9300 THEN "A"
    ELSE IF percentage >= 9000 THEN "A-"
    ELSE IF percentage >= 8700 THEN "B+"
    ELSE IF percentage >= 8300 THEN "B"
    ELSE IF percentage >= 8000 THEN "B-"
    ELSE IF percentage >= 7700 THEN "C+"
    ELSE IF percentage >= 7300 THEN "C"
    ELSE IF percentage >= 7000 THEN "C-"
    ELSE IF percentage >= 6700 THEN "D+"
    ELSE IF percentage >= 6300 THEN "D"
    ELSE IF percentage >= 6000 THEN "D-"
    ELSE "F"

\* Values of the marks attributes of a Grade object in memory: a Decimal (read
\* from the database or cleaned by an admin form), the text of a POST field,
\* None, or a POST field that is absent.
Decimal(n) == [kind |-> "decimal", n |-> n]

Text(n) == [kind |-> "text", n |-> n]

Null == [kind |-> "null", n |-> 0]

Missing == [kind |-> "missing", n |-> 0]

EmptyText == [kind |-> "empty", n |-> 0]

\* a grade table that declares no unique constraint
Grade_not_unique(table, obj) == TRUE

\* unique_together = ['student', 'subject', 'title', 'grade_type']
Grade_unique_together(table, obj) ==
    \A r \in DOMAIN table :
        ~(r.student = obj.student /\ r.subject = obj.subject
          /\ r.title = obj.title /\ r.grade_type = obj.grade_type)

\* the row written for an object: DecimalField.to_python turns text into a Decimal
GradeRow(obj) ==
    [student |-> obj.student, subject |-> obj.subject, title |-> obj.title,
     grade_type |-> obj.grade_type, marks_obtained |-> obj.marks_obtained.n,
     total_marks |-> obj.total_marks.n, percentage |-> obj.percentage,
     letter_grade |-> obj.letter_grade, graded_by |-> obj.graded_by,
     is_published |-> obj.is_published]

\* the object loaded from a row; percentage is {} for NULL, {p} for a value
GradeObject(row) ==
    [row EXCEPT !.marks_obtained = Decimal(row.marks_obtained),
                !.total_marks = Decimal(row.total_marks)]

\* models.Model.save: NOT NULL and unique constraints, then the write
Model_save(table, obj) ==
    IF obj.marks_obtained.kind \in {"null", "empty"} \/ obj.total_marks.kind \in {"null", "empty"}
    THEN [ok |-> FALSE, error |-> "IntegrityError: NOT NULL constraint failed", table |-> table]
    ELSE IF ~Grade_unique_together(table, obj)
    THEN [ok |-> FALSE, error |-> "IntegrityError: UNIQUE constraint failed", table |-> table]
    ELSE [ok |-> TRUE, error |-> "", table |-> Insert(table, GradeRow(obj))]

\* Grade.save.  `table` holds the other rows (for an update, the table without
\* the row being rewritten).  Comparing or dividing text raises TypeError.
Grade_save(table, obj) ==
    LET m == obj.marks_obtained
        t == obj.total_marks
    IN  IF m.kind = "null" \/ t.kind = "null"
        THEN Model_save(table, obj)
        ELSE IF t.kind # "decimal"
        THEN [ok |-> FALSE, error |-> "TypeError: '>' not supported between 'str' and 'int'",
              table |-> table]
        ELSE IF ~(t.n > 0)
        THEN Model_save(table, obj)
        ELSE IF m.kind # "decimal"
        THEN [ok |-> FALSE, error |-> "TypeError: unsupported operand type(s) for /",
              table |-> table]
        ELSE Model_save(table,
                 [obj EXCEPT !.percentage = {Percentage(m.n, t.n)},
                             !.letter_grade = calculate_letter_grade(Percentage(m.n, t.n))])

-----------------------------------------------------------------------------
(* calculate_letter_grade as a function of the percentage *)

PercentageValues == (0 - BelowZero)..MaxPercentage

PercentageSteps == {-100, -1, 0, 1, 100}

InitLetter ==
    /\ enrollments = EmptyBag
    /\ attendance = EmptyBag
    /\ grades = EmptyBag
    /\ response = NoResponse
    /\ percentage_in \in PercentageValues
    /\ letter_out = None
    /\ in_flight = [req \in Requests |-> Idle]

\* one more call, for a percentage near the last one
CalculateLetterGrade ==
    \E step \in PercentageSteps :
        /\ percentage_in + step \in PercentageValues
        /\ percentage_in' = percentage_in + step
        /\ letter_out' = calculate_letter_grade(percentage_in + step)
        /\ UNCHANGED <<enrollments, attendance, grades, response, in_flight>>

SpecLetter == InitLetter /\ [][CalculateLetterGrade]_vars

\* the cutoff table of the claim, best label first
CutoffTable ==
    << <<9700, "A+">>, <<9300, "A">>, <<9000, "A-">>, <<8700, "B+">>, <<8300, "B">>,
       <<8000, "B-">>, <<7700, "C+">>, <<7300, "C">>, <<7000, "C-">>, <<6700, "D+">>,
       <<6300, "D">>, <<6000, "D-">> >>

Labels == {CutoffTable[i][2] : i \in 1..Len(CutoffTable)} \cup {"F"}

\* 0 for F, 12 for A+
Rank(label) ==
    IF label = "F" THEN 0
    ELSE Len(CutoffTable) + 1 - (CHOOSE i \in 1..Len(CutoffTable) : CutoffTable[i][2] = label)

LabelMatchesTable(percentage, label) ==
    /\ label \in Labels
    /\ \A i \in 1..Len(CutoffTable) :
          (label = CutoffTable[i][2])
          <=> ( /\ percentage >= CutoffTable[i][1]
                /\ (i = 1 \/ percentage < CutoffTable[i - 1][1]) )
    /\ (label = "F") <=> (percentage < CutoffTable[Len(CutoffTable)][1])

\* C8: calculate_letter_grade returns, for every percentage, the one label of
\* the cutoff table (>= 97 A+ ... >= 60 D-, otherwise F), and a higher
\* percentage never yields a lower label.
C8_LetterGradeTable ==
    /\ [](letter_out # None => LabelMatchesTable(percentage_in, letter_out))
    /\ [][(letter_out # None /\ percentage_in' >= percentage_in)
             => Rank(letter_out') >= Rank(letter_out)]_vars

\* the call at the cutoff of the best label
C8_Witness == percentage_in = 9700 /\ letter_out = "A+"


-----------------------------------------------------------------------------
(* teacher/views.py: add_grade and edit_grade *)

Titles == {"Quiz 1", "Quiz 2"}

GradeTypes == {"quiz", "test"}

\* the loop of add_grade over the enrolled students, inside transaction.atomic()
RECURSIVE CreateAll(_, _, _, _, _, _, _, _)
CreateAll(table, students, subject, title, grade_type, total_marks, marks, teacher) ==
    IF students = {}
    THEN [ok |-> TRUE, error |-> "", table |-> table]
    ELSE LET student == CHOOSE x \in students : TRUE
             rest == students \ {student}
         IN  IF marks[student].kind \in {"missing", "empty"}
             THEN CreateAll(table, rest, subject, title, grade_type, total_marks,
                            marks, teacher)
             ELSE LET step == Grade_save(table,
                                 [student |-> student, subject |-> subject, title |-> title,
                                  grade_type |-> grade_type,
                                  marks_obtained |-> marks[student],
                                  total_marks |-> IF total_marks.kind = "missing"
                                                  THEN Null ELSE total_marks,
                                  percentage |-> {}, letter_grade |-> None,
                                  graded_by |-> teacher, is_published |-> TRUE])
                  IN  IF ~step.ok
                      THEN step
                      ELSE CreateAll(step.table, rest, subject, title, grade_type,
                                     total_marks, marks, teacher)

add_grade(u, method, subject_id, title, grade_type, total_marks, marks) ==
    /\ UNCHANGED <<enrollments, attendance, percentage_in, letter_out, in_flight>>
    /\ IF ~is_teacher(u)
       THEN response' = LoginRedirect /\ UNCHANGED grades
       ELSE IF method # "POST"
       THEN response' = Flash(FALSE, "Invalid request method.") /\ UNCHANGED grades
       ELSE IF teacher_profile(u) = None
       THEN /\ response' = Flash(FALSE, "Error adding grades: " \o NoTeacherProfileError)
            /\ UNCHANGED grades
       ELSE IF subject_id \notin Subjects \/ subject_teacher(subject_id) # teacher_profile(u)
       THEN /\ response' = Flash(FALSE, "Error adding grades: " \o NoSubjectError)
            /\ UNCHANGED grades
       ELSE LET res == CreateAll(grades, enrolled_students(subject_id), subject_id, title,
                                 grade_type, total_marks, marks, teacher_profile(u)) IN
            IF res.ok
            THEN /\ grades' = res.table
                 /\ response' = Flash(TRUE, "Grades added successfully for <subject>")
            ELSE /\ UNCHANGED grades
                 /\ response' = Flash(FALSE, "Error adding grades: " \o res.error)

\* request.POST.get(name, current) of a text field
PostText(field, current) == IF field = FieldMissing THEN current ELSE field

\* request.POST.get(name, current) of a marks field
PostMarks(field, current) == IF field.kind = "missing" THEN current ELSE field

NoGradeError == "No Grade matches the given query."

\* a grade_id that names no row
NoSuchGrade ==
    [student |-> None, subject |-> 0, title |-> "", grade_type |-> "",
     marks_obtained |-> 0, total_marks |-> 0, percentage |-> {}, letter_grade |-> None,
     graded_by |-> None, is_published |-> FALSE]

\* grade_id is a row of the table, or NoSuchGrade
edit_grade(u, method, grade_id, form) ==
    /\ UNCHANGED <<enrollments, attendance, percentage_in, letter_out, in_flight>>
    /\ IF ~is_teacher(u)
       THEN response' = LoginRedirect /\ UNCHANGED grades
       ELSE IF teacher_profile(u) = None
       THEN /\ response' = Flash(FALSE, "Error editing grade: " \o NoTeacherProfileError)
            /\ UNCHANGED grades
       ELSE IF grade_id \notin DOMAIN grades
       THEN /\ response' = Flash(FALSE, "Error editing grade: " \o NoGradeError)
            /\ UNCHANGED grades
       ELSE IF grade_id.graded_by # teacher_profile(u)
       THEN /\ response' = Flash(FALSE, "Error editing grade: " \o NoGradeError)
            /\ UNCHANGED grades
       ELSE IF method # "POST"
       THEN /\ response' = [kind |-> "page", success |-> TRUE, message |-> "Edit Grade",
                            enrolled_count |-> -1]
            /\ UNCHANGED grades
       ELSE LET grade == GradeObject(grade_id)
                edited ==
                    [grade EXCEPT
                        !.title = PostText(form.title, grade.title),
                        !.grade_type = PostText(form.grade_type, grade.grade_type),
                        !.marks_obtained = PostMarks(form.marks_obtained, grade.marks_obtained),
                        !.total_marks = PostMarks(form.total_marks, grade.total_marks),
                        !.is_published = (form.is_published = "on")]
                res == Grade_save(Delete(grades, grade_id), edited)
            IN  IF res.ok
                THEN /\ grades' = res.table
                     /\ response' = Flash(TRUE, "Grade updated successfully.")
                ELSE /\ UNCHANGED grades
                     /\ response' = Flash(FALSE, "Error editing grade: " \o res.error)

-----------------------------------------------------------------------------
(* core/admin.py: the administrator's add and change pages of the grade    *)
(* table.  The forms clean the marks to Decimals, validate unique_together *)
(* and call Grade.save.                                                     *)

AdminAddGrade(student, subject, title, grade_type, marks_obtained, total_marks, graded_by) ==
    /\ Count(grades) < MaxGrades
    /\ UNCHANGED <<enrollments, attendance, percentage_in, letter_out, in_flight>>
    /\ LET res == Grade_save(grades,
                     [student |-> student, subject |-> subject, title |-> title,
                      grade_type |-> grade_type,
                      marks_obtained |-> Decimal(marks_obtained),
                      total_marks |-> Decimal(total_marks),
                      percentage |-> {}, letter_grade |-> None,
                      graded_by |-> graded_by, is_published |-> FALSE])
       IN  IF res.ok
           THEN /\ grades' = res.table
                /\ response' = AdminDone(TRUE, "The grade was added successfully.")
           ELSE /\ UNCHANGED grades
                /\ response' = AdminDone(FALSE,
                       "Grade with this Student, Subject, Title and Grade type already exists.")

\* the change form with new marks
AdminChangeGrade(row, marks_obtained, total_marks) ==
    /\ row \in DOMAIN grades
    /\ UNCHANGED <<enrollments, attendance, percentage_in, letter_out, in_flight>>
    /\ LET res == Grade_save(Delete(grades, row),
                     [GradeObject(row) EXCEPT !.marks_obtained = Decimal(marks_obtained),
                                              !.total_marks = Decimal(total_marks)])
       IN  /\ res.ok
           /\ grades' = res.table
           /\ response' = AdminDone(TRUE, "The grade was changed successfully.")

-----------------------------------------------------------------------------
(* Grades of one subject: the keys vary, the marks are fixed *)

EditForms ==
    [title : Titles \cup {FieldMissing}, grade_type : GradeTypes \cup {FieldMissing},
     marks_obtained : {Missing}, total_marks : {Missing},
     is_published : {"on", FieldMissing}]

\* add_grade forms: the total and each student's marks as text, empty or absent
AddForms ==
    {f \in [Students -> {Text(1), EmptyText, Missing}] :
        f["S2"] = Missing /\ f["S4"] = Missing /\ f["S3"] = EmptyText}

GradeEnrollments ==
    \/ enroll_subject("student1", "POST", 4)
    \/ unenroll_subject("student1", "POST", 4)

GradeAdminAdds ==
    \E title \in Titles, grade_type \in GradeTypes, graded_by \in {"T1", "T2"} :
        AdminAddGrade("S1", 4, title, grade_type, 1, 2, graded_by)

GradeEdits ==
    \E grade_id \in DOMAIN grades \cup {NoSuchGrade}, form \in EditForms :
        edit_grade("teacher1", "POST", grade_id, form)

GradeAdds ==
    \E title \in Titles, total_marks \in {Text(2), Missing}, marks \in AddForms :
        add_grade("teacher1", "POST", 4, title, "quiz", total_marks, marks)

\* requests of other users, with other methods and for other subjects
GradeOtherRequests ==
    \E req \in { <<"anon", "POST", 4>>, <<"teacher0", "POST", 4>>,
                 <<"teacher1", "GET", 4>>, <<"teacher1", "POST", 1>>,
                 <<"teacher2", "POST", 4>> } :
        \/ add_grade(req[1], req[2], req[3], "Quiz 1", "quiz", Text(2),
                     [s \in Students |-> Text(1)])
        \/ \E grade_id \in DOMAIN grades :
               edit_grade(req[1], req[2], grade_id,
                          [title |-> "Quiz 2", grade_type |-> FieldMissing,
                           marks_obtained |-> Missing, total_marks |-> Missing,
                           is_published |-> "on"])

NextGrade ==
    GradeEnrollments \/ GradeAdminAdds \/ GradeEdits \/ GradeAdds \/ GradeOtherRequests

SpecGrade == Init /\ [][NextGrade]_vars

\* C6: whatever add_grade and edit_grade operations ran, also edits of a
\* grade's title or grade_type, the table holds at most one grade row for each
\* (student, subject, title, grade_type).
C6_GradeUnique ==
    \A r1, r2 \in DOMAIN grades :
        (r1.student = r2.student /\ r1.subject = r2.subject
         /\ r1.title = r2.title /\ r1.grade_type = r2.grade_type)
        => (r1 = r2 /\ grades[r1] = 1)

\* an edit that would have given two grades the same key was refused
C6_Witness ==
    /\ response = Flash(FALSE, "Error editing grade: IntegrityError: UNIQUE constraint failed")
    /\ Count(grades) = 2


-----------------------------------------------------------------------------
(* One grade: the key is fixed, the marks vary *)

MarksValues == 0..MaxMarks

MarksAdminAdds ==
    \E marks_obtained \in MarksValues \ {0}, total_marks \in MarksValues :
        AdminAddGrade("S1", 4, "Quiz 1", "quiz", marks_obtained, total_marks, "T1")

MarksAdminChanges ==
    \E row \in DOMAIN grades,
       marks_obtained \in MarksValues \ {0}, total_marks \in MarksValues :
        AdminChangeGrade(row, marks_obtained, total_marks)

MarksEdits ==
    \E row \in DOMAIN grades,
       marks_obtained \in {Missing, Text(1), Text(MaxMarks)},
       total_marks \in {Missing, Text(MaxMarks)} :
        edit_grade("teacher1", "POST", row,
                   [title |-> FieldMissing, grade_type |-> FieldMissing,
                    marks_obtained |-> marks_obtained, total_marks |-> total_marks,
                    is_published |-> "on"])

NextMarks == MarksAdminAdds \/ MarksAdminChanges \/ MarksEdits

SpecMarks == Init /\ [][NextMarks]_vars

\* C7: every stored percentage and letter grade is the one derived from the
\* marks stored by the same save: none is left over from earlier marks.
C7_DerivedFromStoredMarks ==
    \A r \in DOMAIN grades :
        (r.percentage # {} \/ r.letter_grade # None)
        => /\ r.total_marks > 0
           /\ r.percentage = {Percentage(r.marks_obtained, r.total_marks)}
           /\ r.letter_grade =
                  calculate_letter_grade(Percentage(r.marks_obtained, r.total_marks))

-----------------------------------------------------------------------------
(* The six handlers, each requested by every user *)

RoleSubjects == {4}

StudentRequestBy(u) ==
    \E subject_id \in RoleSubjects :
        \/ enroll_subject(u, "POST", subject_id)
        \/ ajax_enroll_subject(u, "POST", subject_id)
        \/ unenroll_subject(u, "POST", subject_id)

TeacherRequestBy(u) ==
    \/ \E subject_id \in RoleSubjects :
           mark_attendance(u, "POST", subject_id, 1, [s \in Students |-> "present"])
    \/ \E subject_id \in RoleSubjects :
           add_grade(u, "POST", subject_id, "Quiz 1", "quiz", Text(2),
                     [s \in Students |-> Text(1)])
    \/ \E grade_id \in DOMAIN grades :
           edit_grade(u, "POST", grade_id,
                      [title |-> "Quiz 2", grade_type |-> FieldMissing,
                       marks_obtained |-> Missing, total_marks |-> Missing,
                       is_published |-> "on"])

RoleAdminAdds ==
    \E graded_by \in {"T0", "T1"} :
        AdminAddGrade("S1", 4, "Quiz 1", "quiz", 1, 2, graded_by)

NextRoles ==
    \/ \E u \in Users : StudentRequestBy(u)
    \/ \E u \in Users : TeacherRequestBy(u)
    \/ RoleAdminAdds

SpecRoles == Init /\ [][NextRoles]_vars

NotStudentRole == {u \in Users : ~(u # "anon" /\ role(u) = "student")}

NotTeacherRole == {u \in Users : ~(u # "anon" /\ role(u) = "teacher")}

\* C10: a step that changes an enrollment, attendance or grade row is never
\* the answer to an enrollment request of a user who is not an authenticated
\* student, nor to an attendance or grade request of a user who is not an
\* authenticated teacher.
C10_RoleGated ==
    [][(tables' # tables)
         => /\ \A u \in NotStudentRole : ~StudentRequestBy(u)
            /\ \A u \in NotTeacherRole : ~TeacherRequestBy(u)]_vars

\* a request was sent to the login page while all three tables hold rows
C10_Witness ==
    /\ response = LoginRedirect
    /\ enrollments # EmptyBag /\ attendance # EmptyBag /\ grades # EmptyBag

-----------------------------------------------------------------------------
(* core/models.py: enroll_in_subject and unenroll_from_subject called as   *)
(* methods of a StudentProfile, with the administrator's enrollment pages   *)

Method(op, student, subject, ok, msg) ==
    [kind |-> "method", success |-> ok, message |-> msg, enrolled_count |-> -1,
     op |-> op, student |-> student, subject |-> subject]

EnrollInSubject(student, subject) ==
    /\ UNCHANGED <<attendance, grades, percentage_in, letter_out, in_flight>>
    /\ LET res == enroll_in_subject(student, subject) IN
       /\ enrollments' = res.table
       /\ response' = Method("enroll", student, subject, res.success, res.message)

UnenrollFromSubject(student, subject) ==
    /\ UNCHANGED <<attendance, grades, percentage_in, letter_out, in_flight>>
    /\ LET res == unenroll_from_subject(student, subject) IN
       /\ enrollments' = res.table
       /\ response' = Method("unenroll", student, subject, res.success, res.message)

\* subjects the calls name; the student already holds the remaining ones
MethodSubjects == 1..(NumSmallSubjects + 1)

SeededSubjects == (NumSmallSubjects + 2)..NumSubjects

\* the database after S1 enrolled in each of SeededSubjects
InitMethods ==
    /\ enrollments = SetToBag({[student |-> "S1", subject |-> subject, is_active |-> TRUE] :
                                  subject \in SeededSubjects})
    /\ attendance = EmptyBag
    /\ grades = EmptyBag
    /\ response = NoResponse
    /\ percentage_in = 0
    /\ letter_out = None
    /\ in_flight = [req \in Requests |-> Idle]

MethodEnrolls == \E subject \in MethodSubjects : EnrollInSubject("S1", subject)

MethodUnenrolls == \E subject \in MethodSubjects : UnenrollFromSubject("S1", subject)

\* the profile without a class
MethodNoClass == EnrollInSubject("S0", 4) \/ UnenrollFromSubject("S0", 4)

\* the administrator adds inactive rows and toggles is_active
MethodAdminPages ==
    \/ \E subject \in 1..NumSmallSubjects : AdminAddEnrollment("S1", subject, FALSE)
    \/ \E row \in DOMAIN enrollments :
           row.subject <= NumSmallSubjects /\ AdminChangeEnrollment(row)

NextMethods == MethodEnrolls \/ MethodUnenrolls \/ MethodNoClass \/ MethodAdminPages

SpecMethods == InitMethods /\ [][NextMethods]_vars

MethodStudents == {"S0", "S1"}

\* the number of enrollment rows of a student, active or not
RecordCount(student) ==
    BagCardinality([r \in {x \in DOMAIN enrollments : x.student = student} |-> enrollments[r]])

\* the four checks, read from the tables before the call
FourChecks(student, subject) ==
    /\ student_class(student) # None
    /\ student_class(student) = subject_class(subject)
    /\ ~Active(student, subject)
    /\ RecordCount(student) < 8
    /\ subject_is_active(subject)

\* C11: a call of enroll_in_subject succeeds exactly when the four checks
\* pass on the tables it starts from, and a call on which a check fails
\* returns failure and leaves the enrollment table as it was.
C11_EnrollIffFourChecks ==
    [][\A student \in MethodStudents, subject \in MethodSubjects :
          EnrollInSubject(student, subject)
          => /\ response'.success <=> FourChecks(student, subject)
             /\ ~FourChecks(student, subject) => enrollments' = enrollments]_vars

\* a call refused by the limit while the subject was otherwise open
C11_Witness ==
    /\ response.kind = "method" /\ response.op = "enroll"
    /\ ~response.success
    /\ response.message = "Maximum subject limit reached (8 subjects)"
    /\ RecordCount("S1") = 8

\* C12: a student with fewer than 8 active enrollments who calls
\* enroll_in_subject for an active subject of the own class, holding no
\* active enrollment in it, succeeds: inactive rows never use up the limit.
C12_FewerThanEightCanEnroll ==
    [][\A student \in MethodStudents, subject \in MethodSubjects :
          (/\ ActiveCount(student) < 8
           /\ student_class(student) # None
           /\ student_class(student) = subject_class(subject)
           /\ subject_is_active(subject)
           /\ ~Active(student, subject)
           /\ EnrollInSubject(student, subject))
          => response'.success]_vars

-----------------------------------------------------------------------------
(* ajax_enroll_subject served by several workers at once.  Django runs     *)
(* each query in its own transaction (autocommit) and the code takes no    *)
(* lock, so the queries of two requests interleave: the checks of          *)
(* can_enroll_in_subject, then get_or_create, then enrollment.save().      *)
(* A request ends "refused" by the checks or "done" after get_or_create.   *)

InFlight(pc, student, subject, ok, msg) ==
    [pc |-> pc, student |-> student, subject |-> subject, success |-> ok, message |-> msg]

\* the preamble of the view and can_enroll_in_subject
BeginEnroll(req, u, subject_id) ==
    /\ in_flight[req].pc \in {"idle", "refused", "done"}
    /\ UNCHANGED <<enrollments, attendance, grades, percentage_in, letter_out>>
    /\ IF ~is_student(u)
       THEN response' = LoginRedirect /\ in_flight' = [in_flight EXCEPT ![req] = Idle]
       ELSE IF student_profile(u) = None
       THEN /\ response' = Json(FALSE, NoProfileError, -1)
            /\ in_flight' = [in_flight EXCEPT ![req] = Idle]
       ELSE IF subject_id \notin Subjects
       THEN /\ response' = Json(FALSE, NoSubjectError, -1)
            /\ in_flight' = [in_flight EXCEPT ![req] = Idle]
       ELSE LET student == student_profile(u)
                chk == can_enroll_in_subject(student, subject_id)
            IN  IF ~chk.ok
                THEN /\ response' = Json(FALSE, chk.message, get_enrollment_count(student))
                     /\ in_flight' = [in_flight EXCEPT ![req] =
                            InFlight("refused", student, subject_id, FALSE, chk.message)]
                ELSE /\ UNCHANGED response
                     /\ in_flight' = [in_flight EXCEPT ![req] =
                            InFlight("checked", student, subject_id, FALSE, "")]

\* StudentSubjectEnrollment.objects.get_or_create and the branches on its result
GetOrCreate(req) ==
    /\ in_flight[req].pc = "checked"
    /\ UNCHANGED <<attendance, grades, percentage_in, letter_out>>
    /\ LET student == in_flight[req].student
           subject == in_flight[req].subject
           goc == get_or_create(student, subject)
       IN  IF ~goc.created /\ ~goc.obj.is_active
           THEN /\ UNCHANGED <<enrollments, response>>
                /\ in_flight' = [in_flight EXCEPT ![req] =
                       InFlight("found", student, subject, FALSE, "")]
           ELSE IF goc.created
           THEN /\ enrollments' = goc.table
                /\ response' = Json(TRUE, "Successfully enrolled in subject",
                                    Count(student_enrollments(goc.table, student)))
                /\ in_flight' = [in_flight EXCEPT ![req] =
                       InFlight("done", student, subject, TRUE,
                                "Successfully enrolled in subject")]
           ELSE /\ UNCHANGED enrollments
                /\ response' = Json(FALSE, "Already enrolled in this subject",
                                    get_enrollment_count(student))
                /\ in_flight' = [in_flight EXCEPT ![req] =
                       InFlight("done", student, subject, FALSE,
                                "Already enrolled in this subject")]

\* enrollment.is_active = True; enrollment.save(): an UPDATE of the row, or an
\* INSERT when the row is gone
SaveEnrollment(req) ==
    /\ in_flight[req].pc = "found"
    /\ UNCHANGED <<attendance, grades, percentage_in, letter_out>>
    /\ LET student == in_flight[req].student
           subject == in_flight[req].subject
           old == {r \in DOMAIN enrollments : r.student = student /\ r.subject = subject}
           kept == Filter(enrollments, DOMAIN enrollments \ old)
           table == Insert(kept, [student |-> student, subject |-> subject,
                                  is_active |-> TRUE])
       IN  /\ enrollments' = table
           /\ response' = Json(TRUE, "Successfully re-enrolled in subject",
                               Count(student_enrollments(table, student)))
           /\ in_flight' = [in_flight EXCEPT ![req] =
                  InFlight("done", student, subject, TRUE,
                           "Successfully re-enrolled in subject")]

\* rows S1 holds when the requests arrive: one row short of the limit, all
\* active, or with the row of subject 4 deactivated by the administrator
SeedAllActive ==
    SetToBag({[student |-> "S1", subject |-> subject, is_active |-> TRUE] :
                 subject \in 5..(MaxEnrollments + 3)})

SeedOneInactive ==
    SetToBag({[student |-> "S1", subject |-> subject, is_active |-> subject # 4] :
                 subject \in {4} \cup 6..(MaxEnrollments + 3)})

InitConcurrent ==
    /\ enrollments \in {SeedAllActive, SeedOneInactive}
    /\ attendance = EmptyBag
    /\ grades = EmptyBag
    /\ response = NoResponse
    /\ percentage_in = 0
    /\ letter_out = None
    /\ in_flight = [req \in Requests |-> Idle]

ConcurrentSubjectIds == {0, 3, 4}

NextConcurrent ==
    \/ \E req \in Requests, u \in {"anon", "student0", "student1"},
          subject_id \in ConcurrentSubjectIds : BeginEnroll(req, u, subject_id)
    \/ \E req \in Requests : GetOrCreate(req)
    \/ \E req \in Requests : SaveEnrollment(req)

SpecConcurrent == InitConcurrent /\ [][NextConcurrent]_vars

\* C13: with the check and the insert of each request as separate steps that
\* interleave, no student ever holds more than 8 active enrollments.
C13_AtMostEightActiveConcurrently ==
    \A req \in Requests :
        in_flight[req].pc = "done" /\ in_flight[req].success
        => ActiveCount(in_flight[req].student) <= 8

\* C14: two requests of one student for one subject that both passed the
\* checks and ran get_or_create leave exactly one row for the pair; at most
\* one of them reports success and the other reports 'Already enrolled in
\* this subject'.
C14_OneSuccessPerPair ==
    \A r1, r2 \in Requests :
        (/\ r1 # r2
         /\ in_flight[r1].pc = "done" /\ in_flight[r2].pc = "done"
         /\ in_flight[r1].student = in_flight[r2].student
         /\ in_flight[r1].subject = in_flight[r2].subject)
        => /\ BagCardinality(Filter(enrollments,
                  {r \in DOMAIN enrollments : /\ r.student = in_flight[r1].student
                                              /\ r.subject = in_flight[r1].subject})) = 1
           /\ ~(in_flight[r1].success /\ in_flight[r2].success)
           /\ in_flight[r1].success
              => in_flight[r2].message = "Already enrolled in this subject"

-----------------------------------------------------------------------------
(* Unenrollment claims, under SpecMethods *)

\* the enrollment rows of a pair, active or not
PairRows(student, subject) ==
    {r \in DOMAIN enrollments : r.student = student /\ r.subject = subject}

\* a successful unenroll call leaves no row for the pair and one row fewer
UnenrollDeletes ==
    \A student \in MethodStudents, subject \in MethodSubjects :
        (UnenrollFromSubject(student, subject) /\ response'.success)
        => /\ PairRows(student, subject)' = {}
           /\ RecordCount(student)' = RecordCount(student) - 1

\* C15 as stated: a successful unenroll deletes the row, and every
\* successful enroll in a non-mandatory subject followed by an unenroll from
\* it gives back the enrollment table the enroll started from.
C15_UnenrollRestoresAlways ==
    [][/\ UnenrollDeletes
       /\ \A student \in MethodStudents, subject \in MethodSubjects :
             (/\ ~subject_is_mandatory(subject)
              /\ EnrollInSubject(student, subject)
              /\ response'.success)
             => /\ unenroll_from_subject(student, subject)'.success
                /\ unenroll_from_subject(student, subject)'.table = enrollments]_vars

\* C15 amended: a successful unenroll deletes the row; an enroll in a
\* non-mandatory subject followed by an unenroll gives back the table the
\* enroll started from when the student held no row for the subject, and
\* that table without the inactive row when the enroll reactivated one.
C15_UnenrollRestoresCreated ==
    [][/\ UnenrollDeletes
       /\ \A student \in MethodStudents, subject \in MethodSubjects :
             (/\ ~subject_is_mandatory(subject)
              /\ EnrollInSubject(student, subject)
              /\ response'.success)
             => /\ unenroll_from_subject(student, subject)'.success
                /\ unenroll_from_subject(student, subject)'.table =
                       Filter(enrollments,
                              DOMAIN enrollments \ PairRows(student, subject))]_vars

\* an unenroll call has just deleted the row of its pair
C15_Witness ==
    /\ response.kind = "method" /\ response.op = "unenroll"
    /\ response.success
    /\ PairRows(response.student, response.subject) = {}

\* C16: unenroll_from_subject for a subject in which the student holds no
\* active enrollment, mandatory or not, returns failure with 'You are not
\* enrolled in this subject' and leaves every table as it was.
C16_NotEnrolledRefused ==
    [][\A student \in MethodStudents, subject \in MethodSubjects :
          (~Active(student, subject) /\ UnenrollFromSubject(student, subject))
          => /\ ~response'.success
             /\ response'.message = "You are not enrolled in this subject"
             /\ tables' = tables]_vars

\* the call was for a mandatory subject of which the student holds only an
\* inactive row
C16_Witness ==
    /\ response.kind = "method" /\ response.op = "unenroll"
    /\ response.message = "You are not enrolled in this subject"
    /\ subject_is_mandatory(response.subject)
    /\ PairRows(response.student, response.subject) # {}
    /\ ~Active(response.student, response.subject)

\* C17: when the student holds an inactive row for the subject and the four
\* checks pass, enroll_in_subject reports re-enrollment, the row becomes
\* active, and the pair still has one row only.
C17_ReenrollReactivates ==
    [][\A student \in MethodStudents, subject \in MethodSubjects :
          (/\ PairRows(student, subject) # {}
           /\ FourChecks(student, subject)
           /\ EnrollInSubject(student, subject))
          => /\ response'.success
             /\ response'.message = "Successfully re-enrolled in subject"
             /\ enrollments' =
                    Filter(enrollments, DOMAIN enrollments \ PairRows(student, subject))
                    (+) SetToBag({[student |-> student, subject |-> subject,
                                   is_active |-> TRUE]})]_vars

\* enroll_in_subject has just reactivated the one row of its pair
C17_Witness ==
    /\ response.kind = "method" /\ response.op = "enroll"
    /\ response.message = "Successfully re-enrolled in subject"
    /\ Active(response.student, response.subject)
    /\ Cardinality(PairRows(response.student, response.subject)) = 1

-----------------------------------------------------------------------------
(* students/views.py: subject_enrollment, the enrollment management page *)

\* Subject.objects.filter(enrolled_students__student=self)
get_enrolled_subjects(student) ==
    {subj \in Subjects :
        \E r \in DOMAIN enrollments : r.student = student /\ r.subject = subj}

get_available_subjects(student) ==
    IF student_class(student) = None
    THEN {}
    ELSE LET enrolled_subject_ids ==
                 {r.subject : r \in {x \in DOMAIN enrollments :
                                        x.student = student /\ x.is_active}}
         IN  {subj \in Subjects : /\ subject_class(subj) = student_class(student)
                                  /\ subject_is_active(subj)
                                  /\ subj \notin enrolled_subject_ids}

Page(enrolled_subjects, available_subjects, current_count) ==
    [kind |-> "page", success |-> TRUE, message |-> "", enrolled_count |-> current_count,
     enrolled_subjects |-> enrolled_subjects, available_subjects |-> available_subjects]

subject_enrollment(u) ==
    /\ UNCHANGED <<enrollments, attendance, grades, percentage_in, letter_out, in_flight>>
    /\ IF ~is_student(u)
       THEN response' = LoginRedirect
       ELSE IF student_profile(u) = None
       THEN response' = Flash(FALSE,
                "Student profile not found. Please contact administrator.")
       ELSE response' = Page(get_enrolled_subjects(student_profile(u)),
                             get_available_subjects(student_profile(u)),
                             get_enrollment_count(student_profile(u)))

PageViews == \E u \in {"anon", "student0", "student1"} : subject_enrollment(u)

NextPage == SmallStudentPosts \/ AdminEnrollmentPages \/ PageViews

SpecPage == Init /\ [][NextPage]_vars

\* C18: for every student, in every state, no subject is returned both by
\* get_enrolled_subjects and by get_available_subjects, and no enrollment
\* page lists a subject both as enrolled and as available.
C18_EnrolledAvailableDisjoint ==
    /\ \A student \in Students :
          get_enrolled_subjects(student) \cap get_available_subjects(student) = {}
    /\ response.kind = "page"
       => response.enrolled_subjects \cap response.available_subjects = {}

\* the active rows a step adds to the enrollment table: created or reactivated
NewActiveRows ==
    {r \in DOMAIN enrollments' :
        r.is_active /\ (r \notin DOMAIN enrollments \/ enrollments'[r] > enrollments[r])}

\* C19: every row a call of enroll_in_subject creates or reactivates is the
\* row of the calling student and the named subject, and that subject is
\* active and belongs to the student's class.
C19_EnrollsOwnClassActiveSubject ==
    [][\A student \in MethodStudents, subject \in MethodSubjects :
          EnrollInSubject(student, subject)
          => \A r \in NewActiveRows :
                /\ r.student = student /\ r.subject = subject
                /\ subject_is_active(r.subject)
                /\ student_class(r.student) # None
                /\ subject_class(r.subject) = student_class(r.student)]_vars

\* a call created a row while the student's inactive row for a subject of
\* another class, or for an inactive subject, stayed inactive
C19_Witness ==
    /\ response.kind = "method" /\ response.op = "enroll"
    /\ response.message = "Successfully enrolled in subject"
    /\ Active(response.student, response.subject)
    /\ \E r \in DOMAIN enrollments :
          /\ r.student = response.student /\ ~r.is_active
          /\ \/ subject_class(r.subject) # student_class(r.student)
             \/ ~subject_is_active(r.subject)

-----------------------------------------------------------------------------
(* Requests with a method other than POST, among the POST requests of      *)
(* every user                                                               *)

NonPostMethods == {"GET", "DELETE"}

NonPostRequest(u, method) ==
    \E subject_id \in RoleSubjects :
        \/ enroll_subject(u, method, subject_id)
        \/ unenroll_subject(u, method, subject_id)
        \/ ajax_enroll_subject(u, method, subject_id)
        \/ mark_attendance(u, method, subject_id, 1, [s \in Students |-> "present"])
        \/ add_grade(u, method, subject_id, "Quiz 1", "quiz", Text(2),
                     [s \in Students |-> Text(1)])

NextNonPost ==
    \/ NextRoles
    \/ \E u \in Users, method \in NonPostMethods : NonPostRequest(u, method)

SpecNonPost == Init /\ [][NextNonPost]_vars

\* C20: a request to enroll_subject, unenroll_subject, ajax_enroll_subject,
\* mark_attendance or add_grade whose method is not POST leaves the
\* enrollment, attendance and grade tables as they were.
C20_NonPostChangesNothing ==
    [][\A u \in Users, method \in NonPostMethods :
          NonPostRequest(u, method) => tables' = tables]_vars

\* a teacher's GET was answered 'Invalid request method.' while all three
\* tables held rows
C20_Witness ==
    /\ response = Flash(FALSE, "Invalid request method.")
    /\ enrollments # EmptyBag /\ attendance # EmptyBag /\ grades # EmptyBag

-----------------------------------------------------------------------------
(* mark_attendance and add_grade for subjects of the requesting teacher,   *)
(* of another teacher, of no teacher, and for a subject that does not      *)
(* exist                                                                    *)

\* 0 does not exist, 3 is taught by T0, 4 by T1, 5 by nobody
OwnerSubjectIds == {0, 3, 4, 5}

OwnerEnrollments ==
    \E subject_id \in {4, 5} :
        \/ enroll_subject("student1", "POST", subject_id)
        \/ unenroll_subject("student1", "POST", subject_id)

OwnerRequestBy(u, subject_id) ==
    \/ mark_attendance(u, "POST", subject_id, 1, [s \in Students |-> "present"])
    \/ add_grade(u, "POST", subject_id, "Quiz 1", "quiz", Text(2),
                 [s \in Students |-> Text(1)])
    \/ add_grade(u, "POST", subject_id, "Quiz 1", "quiz", Text(2),
                 [s \in Students |-> EmptyText])

OwnerRequests ==
    \E u \in {"teacher0", "teacher1", "teacher2"}, subject_id \in OwnerSubjectIds :
        OwnerRequestBy(u, subject_id)

NextOwner == OwnerEnrollments \/ OwnerRequests \/ RoleAdminAdds

SpecOwner == Init /\ [][NextOwner]_vars

\* the teachers: users with the teacher role and a teacher profile
ProfiledTeacherUsers == {u \in Users : is_teacher(u) /\ teacher_profile(u) # None}

\* C21: a mark_attendance or add_grade request of a teacher that names a
\* subject of another teacher, of no teacher, or no subject at all changes
\* no table and is answered with the error message of a subject not found.
C21_OwnSubjectsOnly ==
    [][\A u \in ProfiledTeacherUsers, subject_id \in OwnerSubjectIds :
          (/\ subject_id \notin Subjects \/ subject_teacher(subject_id) # teacher_profile(u)
           /\ OwnerRequestBy(u, subject_id))
          => /\ tables' = tables
             /\ response'.kind = "flash" /\ ~response'.success
             /\ response'.message \in {"Error marking attendance: " \o NoSubjectError,
                                       "Error adding grades: " \o NoSubjectError}]_vars

\* a mark_attendance request was refused while a student was enrolled in the
\* subject of no teacher and the tables held attendance and grade rows
C21_Witness ==
    /\ response = Flash(FALSE, "Error marking attendance: " \o NoSubjectError)
    /\ Active("S1", 5) /\ Active("S1", 4)
    /\ attendance # EmptyBag /\ grades # EmptyBag

-----------------------------------------------------------------------------
(* add_grade claims, under SpecGrade *)

\* the grade the claim expects add_grade to store for a student: published,
\* graded by the teacher, percentage and letter grade computed from the marks
ExpectedGrade(student, subject, title, grade_type, marks_obtained, total_marks, teacher) ==
    [student |-> student, subject |-> subject, title |-> title, grade_type |-> grade_type,
     marks_obtained |-> marks_obtained, total_marks |-> total_marks,
     percentage |-> {Percentage(marks_obtained, total_marks)},
     letter_grade |-> calculate_letter_grade(Percentage(marks_obtained, total_marks)),
     graded_by |-> teacher, is_published |-> TRUE]

\* C22: a POST of teacher1 to add_grade for the own subject 4, with title,
\* total marks and marks as text, stores one published grade with computed
\* percentage and letter grade for each actively enrolled student whose
\* marks field is filled in, and nothing else; when one of them duplicates a
\* stored (student, subject, title, grade_type), the table stays as it was.
C22_AddGradeStores ==
    [][\A title \in Titles, marks \in AddForms :
          add_grade("teacher1", "POST", 4, title, "quiz", Text(2), marks)
          => LET graded == {s \in enrolled_students(4) : marks[s].kind = "text"}
                 duplicate ==
                     \E s \in graded, r \in DOMAIN grades :
                         /\ r.student = s /\ r.subject = 4
                         /\ r.title = title /\ r.grade_type = "quiz"
             IN  IF duplicate
                 THEN grades' = grades
                 ELSE grades' = grades (+) SetToBag(
                         {ExpectedGrade(s, 4, title, "quiz", marks[s].n, 2, "T1") :
                             s \in graded})]_vars

=============================================================================
